---- MODULE Spec2Model ----
(***************************************************************************)
(* A model of storage3/_sync/file_api.py: the file operations of a bucket  *)
(* handle (SyncBucketActionsMixin).  Every operation is one blocking       *)
(* request/response round trip, so every operation is one action; the      *)
(* transport's answer is an input of the action.                           *)
(*                                                                         *)
(* Python strings are sequences of one-character strings, so that          *)
(* rsplit, lstrip, urlparse, parse_qs and urlencode are computed the way   *)
(* the library computes them.  A Python value is a record [t, v] whose tag *)
(* t is "str", "int", "none" or "dict".  A dict whose iteration order is   *)
(* never observed (headers, JSON bodies, file options) is a function from  *)
(* key names to values; a dict that is urlencoded (transform options) is a *)
(* sequence of <<key, value>> pairs in insertion order.                    *)
(***************************************************************************)
EXTENDS Integers, Sequences, FiniteSets, TLC

VARIABLES
    id,            \* self.id: the bucket handle's bucket id
    base_url,      \* str(self._client.base_url)
    client_headers,\* self._client.headers
    file_options,  \* the dict object the caller passes as file_options (or None)
    supplied,      \* the caller's file options as the caller wrote them
    last,          \* the most recent call: inputs, request sent, outcome, handle
    prev,          \* the call before it: its inputs and the request it sent
    ncalls         \* number of calls made so far

vars == <<id, base_url, client_headers, file_options, supplied, last, prev, ncalls>>

(***************************************************************************)
(* Bounds of the model.                                                    *)
(***************************************************************************)
MaxCalls == 2
MaxBatch == 2

(***************************************************************************)
(* Python values.                                                          *)
(***************************************************************************)
PyStr(s) == [t |-> "str", v |-> s]
PyInt(n) == [t |-> "int", v |-> n]
PyNone == [t |-> "none", v |-> 0]
PyDict(d) == [t |-> "dict", v |-> d]

\* bool(x): the truth value Python's `if x:` tests
Truthy(x) ==
    CASE x.t = "str" -> x.v # << >>
      [] x.t = "int" -> x.v # 0
      [] x.t = "none" -> FALSE
      [] x.t = "dict" -> x.v # << >>

Digit(n) == CASE n = 0 -> "0" [] n = 1 -> "1" [] n = 2 -> "2" [] n = 3 -> "3"
              [] n = 4 -> "4" [] n = 5 -> "5" [] n = 6 -> "6" [] n = 7 -> "7"
              [] n = 8 -> "8" [] n = 9 -> "9"

RECURSIVE IntChars(_)
\* str(n) for an int n >= 0
IntChars(n) == IF n < 10 THEN <<Digit(n)>> ELSE IntChars(n \div 10) \o <<Digit(n % 10)>>

\* the spelling of a key name (a dict key is a Python str)
KeyChars(k) ==
    CASE k = "transform" -> <<"t","r","a","n","s","f","o","r","m">>
      [] k = "width" -> <<"w","i","d","t","h">>
      [] k = "height" -> <<"h","e","i","g","h","t">>
      [] k = "quality" -> <<"q","u","a","l","i","t","y">>
      [] k = "download" -> <<"d","o","w","n","l","o","a","d">>
      [] k = "token" -> <<"t","o","k","e","n">>

\* repr(x) of a str, an int or None
Repr(x) ==
    CASE x.t = "str" -> <<"'">> \o x.v \o <<"'">>
      [] x.t = "int" -> IntChars(x.v)
      [] x.t = "none" -> <<"N","o","n","e">>

RECURSIVE DictItemsChars(_)
DictItemsChars(d) ==
    IF d = << >> THEN << >>
    ELSE <<"'">> \o KeyChars(d[1][1]) \o <<"'",":"," ">> \o Repr(d[1][2])
         \o (IF Len(d) > 1 THEN <<","," ">> ELSE << >>) \o DictItemsChars(Tail(d))

\* str(x), as an f-string or urlencode formats a value
Format(x) ==
    CASE x.t = "str" -> x.v
      [] x.t = "int" -> IntChars(x.v)
      [] x.t = "none" -> <<"N","o","n","e">>
      [] x.t = "dict" -> <<"{">> \o DictItemsChars(x.v) \o <<"}">>

\* d.get(k) on an ordered dict (None when the key is absent)
RECURSIVE PairsGet(_, _)
PairsGet(d, k) ==
    IF d = << >> THEN PyNone
    ELSE IF d[1][1] = k THEN d[1][2] ELSE PairsGet(Tail(d), k)

\* d.get(k) on a dict kept as a function
Get(d, k) == IF k \in DOMAIN d THEN d[k] ELSE PyNone

\* {**a, **b}: the right-biased merge of two dicts
Merge(a, b) == [k \in DOMAIN a \cup DOMAIN b |-> IF k \in DOMAIN b THEN b[k] ELSE a[k]]

\* the dict d without key k (what d.pop(k) leaves)
Without(d, k) == [x \in DOMAIN d \ {k} |-> d[x]]

(***************************************************************************)
(* str methods.                                                            *)
(***************************************************************************)
\* s.lstrip("/"): s from its first character that is not "/"
lstrip(s) ==
    LET rest == {j \in 1..Len(s) : s[j] # "/"} IN
    IF rest = {} THEN << >>
    ELSE SubSeq(s, CHOOSE j \in rest : \A m \in rest : j <= m, Len(s))

\* position of the first c in s, 0 when there is none
Find(s, c) ==
    LET at == {j \in 1..Len(s) : s[j] = c} IN
    IF at = {} THEN 0 ELSE CHOOSE j \in at : \A m \in at : j <= m

\* position of the last c in s, 0 when there is none
RFind(s, c) ==
    LET at == {j \in 1..Len(s) : s[j] = c} IN
    IF at = {} THEN 0 ELSE CHOOSE j \in at : \A m \in at : j >= m

\* s.rsplit("/", maxsplit=1)[-1]
rsplit_last(s) == SubSeq(s, RFind(s, "/") + 1, Len(s))

\* s.split(c): the pieces of s between the occurrences of c
RECURSIVE Split(_, _)
Split(s, c) ==
    LET i == Find(s, c) IN
    IF i = 0 THEN <<s>>
    ELSE <<SubSeq(s, 1, i - 1)>> \o Split(SubSeq(s, i + 1, Len(s)), c)

\* sep.join(parts)
RECURSIVE Join(_, _)
Join(parts, sep) ==
    IF parts = << >> THEN << >>
    ELSE IF Len(parts) = 1 THEN parts[1]
    ELSE parts[1] \o sep \o Join(Tail(parts), sep)

(***************************************************************************)
(* urllib.parse.  No URL of the model holds ";" (urlparse's path           *)
(* parameters), a control character or a non-ASCII character.              *)
(***************************************************************************)
Alpha == {"a","b","c","d","e","f","g","h","i","j","k","l","m",
          "n","o","p","q","r","s","t","u","v","w","x","y","z"}
Digits == {"0","1","2","3","4","5","6","7","8","9"}
SchemeChars == Alpha \cup Digits \cup {"+", "-", "."}
\* quote_plus leaves these unchanged
Upper == {"A","B","C","D","E","F","G","H","I","J","K","L","M",
          "N","O","P","Q","R","S","T","U","V","W","X","Y","Z"}
AlwaysSafe == Alpha \cup Upper \cup Digits \cup {"_", ".", "-", "~"}

\* the percent escape of a reserved character
Escape(c) ==
    CASE c = "/" -> <<"%","2","F">>
      [] c = "=" -> <<"%","3","D">>
      [] c = "&" -> <<"%","2","6">>
      [] c = "?" -> <<"%","3","F">>
      [] c = ":" -> <<"%","3","A">>
      [] c = "'" -> <<"%","2","7">>
      [] c = "{" -> <<"%","7","B">>
      [] c = "}" -> <<"%","7","D">>
      [] c = "," -> <<"%","2","C">>
      [] c = "+" -> <<"%","2","B">>
      [] c = "%" -> <<"%","2","5">>
      [] c = "#" -> <<"%","2","3">>
Reserved == {"/", "=", "&", "?", ":", "'", "{", "}", ",", "+", "%", "#"}

RECURSIVE quote_plus(_)
quote_plus(s) ==
    IF s = << >> THEN << >>
    ELSE (IF Head(s) \in AlwaysSafe THEN <<Head(s)>>
          ELSE IF Head(s) = " " THEN <<"+">>
          ELSE Escape(Head(s))) \o quote_plus(Tail(s))

RECURSIVE EncodeItems(_)
EncodeItems(d) ==
    IF d = << >> THEN << >>
    ELSE <<quote_plus(KeyChars(d[1][1])) \o <<"=">> \o quote_plus(Format(d[1][2]))>>
         \o EncodeItems(Tail(d))

\* urllib.parse.urlencode(d) of an ordered dict
urlencode(d) == Join(EncodeItems(d), <<"&">>)

\* urllib.parse.unquote after replace("+", " "): an escape of a reserved
\* character becomes the character, anything else stays
RECURSIVE unquote_plus(_)
unquote_plus(s) ==
    IF s = << >> THEN << >>
    ELSE IF Head(s) = "+" THEN <<" ">> \o unquote_plus(Tail(s))
    ELSE IF Head(s) = "%" /\ Len(s) >= 3
            /\ \E c \in Reserved : Escape(c) = SubSeq(s, 1, 3)
         THEN <<CHOOSE c \in Reserved : Escape(c) = SubSeq(s, 1, 3)>>
              \o unquote_plus(SubSeq(s, 4, Len(s)))
    ELSE <<Head(s)>> \o unquote_plus(Tail(s))

\* urllib.parse.parse_qsl(qs): the (name, value) pairs, blank values dropped
RECURSIVE QslOf(_)
QslOf(fields) ==
    IF fields = << >> THEN << >>
    ELSE LET nv == fields[1]
             i == Find(nv, "=")
             value == SubSeq(nv, i + 1, Len(nv))
         IN (IF nv = << >> \/ i = 0 \/ value = << >> THEN << >>
             ELSE <<<<unquote_plus(SubSeq(nv, 1, i - 1)), unquote_plus(value)>>>>)
            \o QslOf(Tail(fields))

parse_qsl(qs) == IF qs = << >> THEN << >> ELSE QslOf(Split(qs, "&"))

\* parse_qs(qs).get(name): the list of the values of name; an absent name
\* gives the empty list, which `not` treats as None
RECURSIVE ValuesOf(_, _)
ValuesOf(pairs, name) ==
    IF pairs = << >> THEN << >>
    ELSE (IF pairs[1][1] = name THEN <<pairs[1][2]>> ELSE << >>)
         \o ValuesOf(Tail(pairs), name)

parse_qs_get(qs, name) == ValuesOf(parse_qsl(qs), name)

\* urllib.parse.urlparse(url)
urlparse(url) ==
    LET i == Find(url, ":")
        hasScheme == /\ i > 1
                     /\ url[1] \in Alpha
                     /\ \A j \in 1..(i - 1) : url[j] \in SchemeChars
        scheme == IF hasScheme THEN SubSeq(url, 1, i - 1) ELSE << >>
        u1 == IF hasScheme THEN SubSeq(url, i + 1, Len(url)) ELSE url
        hasNetloc == Len(u1) >= 2 /\ u1[1] = "/" /\ u1[2] = "/"
        u1b == SubSeq(u1, 3, Len(u1))
        ends == {j \in 1..Len(u1b) : u1b[j] \in {"/", "?", "#"}}
        cut == IF ends = {} THEN Len(u1b) + 1
               ELSE CHOOSE j \in ends : \A m \in ends : j <= m
        netloc == IF hasNetloc THEN SubSeq(u1b, 1, cut - 1) ELSE << >>
        u2 == IF hasNetloc THEN SubSeq(u1b, cut, Len(u1b)) ELSE u1
        f == Find(u2, "#")
        fragment == IF f = 0 THEN << >> ELSE SubSeq(u2, f + 1, Len(u2))
        u3 == IF f = 0 THEN u2 ELSE SubSeq(u2, 1, f - 1)
        q == Find(u3, "?")
        query == IF q = 0 THEN << >> ELSE SubSeq(u3, q + 1, Len(u3))
        path == IF q = 0 THEN u3 ELSE SubSeq(u3, 1, q - 1)
    IN [scheme |-> scheme, netloc |-> netloc, path |-> path,
        query |-> query, fragment |-> fragment]

\* ParseResult.geturl()
geturl(r) ==
    LET p1 == IF r.netloc # << >>
              THEN <<"/","/">> \o r.netloc
                   \o (IF r.path # << >> /\ r.path[1] # "/" THEN <<"/">> ELSE << >>)
                   \o r.path
              ELSE IF r.scheme # << >> /\ SubSeq(r.path, 1, 2) # <<"/","/">>
              THEN <<"/","/">>
                   \o (IF r.path # << >> /\ r.path[1] # "/" THEN <<"/">> ELSE << >>)
                   \o r.path
              ELSE r.path
        p2 == IF r.scheme # << >> THEN r.scheme \o <<":">> \o p1 ELSE p1
        p3 == IF r.query # << >> THEN p2 \o <<"?">> \o r.query ELSE p2
    IN IF r.fragment # << >> THEN p3 \o <<"#">> \o r.fragment ELSE p3

(***************************************************************************)
(* Collaborators: the package's constants, the filesystem, the transport.  *)
(***************************************************************************)
\* storage3.constants.DEFAULT_FILE_OPTIONS
DEFAULT_FILE_OPTIONS ==
    [x \in {"cache-control", "content-type", "x-upsert"} |->
        CASE x = "cache-control" -> PyStr(<<"3","6","0","0">>)
          [] x = "content-type" -> PyStr(<<"t","e","x","t","/","p","l","a","i","n",";","c","h","a","r","s","e","t","=","U","T","F","-","8">>)
          [] x = "x-upsert" -> PyStr(<<"f","a","l","s","e">>)]

\* storage3.constants.DEFAULT_SEARCH_OPTIONS
DEFAULT_SEARCH_OPTIONS ==
    [x \in {"limit", "offset", "sortBy"} |->
        CASE x = "limit" -> PyInt(100)
          [] x = "offset" -> PyInt(0)
          [] x = "sortBy" -> PyDict(<<<<"column", PyStr(<<"n","a","m","e">>)>>,
                                      <<"order", PyStr(<<"a","s","c">>)>>>>)]

\* the files that exist, by name, with their content (bytes)
Files == [x \in {<<"d","i","r","/","f","1",".","b","i","n">>} |-> <<1, 2>>]

\* what the transport reads from a payload: the bytes themselves, the rest of
\* an open stream, or the content of the file open(file, "rb") opened
Content(file) == IF file.t = "path" THEN Files[file.v] ELSE file.v

\* Response.is_success, which raise_for_status tests
is_success(status) == 200 <= status /\ status <= 299

Return(value) == [kind |-> "return", exc |-> "", value |-> value]
Raise(exc, data) == [kind |-> "raise", exc |-> exc, value |-> data]

\* the answer of a call that asked the transport nothing
NoAnswer == [kind |-> "none", status |-> 0, body |-> PyNone]

\* one call as the caller and the transport see it
CallRecord(op, args, sent, answer, outcome, handle) ==
    [op |-> op, args |-> args, sent |-> sent, answer |-> answer,
     outcome |-> outcome, handle |-> handle]

NoCall == CallRecord("", << >>, << >>, NoAnswer, Return(PyNone), "none")

\* what is kept of a call once the next one is made
Earlier(call) == [op |-> call.op, args |-> call.args, sent |-> call.sent]

(***************************************************************************)
(* SyncBucketActionsMixin.                                                 *)
(***************************************************************************)
\* error_data with the body's own statusCode winning
error_data_body_wins(body, status) == Merge([statusCode |-> PyInt(status)], body)

\* the data of the StorageException raised for a failing response
error_data(body, status) == Merge(body, [statusCode |-> PyInt(status)])

\* _request: hands the request to the transport; resp is the transport's
\* answer (a failure of its own, or a response)
request(method, url, headers, json, files, resp) ==
    LET req == [method |-> method, url |-> url, headers |-> headers,
                json |-> json, files |-> files]
        outcome ==
            IF resp.kind = "error" THEN Raise("TransportError", PyNone)
            ELSE IF is_success(resp.status) THEN Return(resp)
            ELSE IF resp.body.t = "text" THEN Raise("JSONDecodeError", PyNone)
            ELSE IF resp.body.t = "list" THEN Raise("TypeError", PyNone)
            ELSE Raise("StorageException", error_data(resp.body.v, resp.status))
    IN [sent |-> <<req>>, answer |-> resp, outcome |-> outcome]

\* _get_final_path
get_final_path(path) == id \o <<"/">> \o path

\* the end of every operation: the call is over and the caller has its record
Finish(call) ==
    /\ ncalls < MaxCalls
    /\ ncalls' = ncalls + 1
    /\ prev' = Earlier(last)
    /\ last' = call

\* response.json() of a successful response, then `then` of the decoded data
json_then(op, args, r, then) ==
    CallRecord(op, args, r.sent, r.answer,
               IF r.outcome.kind = "raise" THEN r.outcome
               ELSE IF r.outcome.value.body.t = "text" THEN Raise("JSONDecodeError", PyNone)
               ELSE then,
               "none")

\* signed_upload_result without the check of the token
signed_upload_result_unchecked(path, url) ==
    LET full_url == urlparse(base_url \o url)
        token == parse_qs_get(full_url.query, <<"t","o","k","e","n">>)
    IN Return([signed_url |-> geturl(full_url),
               token |-> IF token = << >> THEN << >> ELSE token[1],
               path |-> path])

\* the part of the signed upload URL that is looked up and checked
signed_upload_result(path, url) ==
    LET full_url == urlparse(base_url \o url)
        token == parse_qs_get(full_url.query, <<"t","o","k","e","n">>)
    IN IF token = << >> THEN Raise("StorageException", PyStr(<<"N","o"," ","t","o","k","e","n"," ","s","e","n","t"," ","b","y"," ","t","h","e"," ","A","P","I">>))
       ELSE Return([signed_url |-> geturl(full_url), token |-> token[1], path |-> path])

create_signed_upload_url(path, resp) ==
    LET r == request("POST", <<"/","o","b","j","e","c","t","/","u","p","l","o","a","d","/","s","i","g","n","/">> \o get_final_path(path),
                     << >>, PyNone, << >>, resp)
        data == r.outcome.value.body
        then == IF data.t # "object" THEN Raise("TypeError", PyNone)
                ELSE IF "url" \notin DOMAIN data.v THEN Raise("KeyError", PyNone)
                ELSE signed_upload_result(path, data.v["url"].v)
    IN /\ Finish(json_then("create_signed_upload_url", [path |-> path], r, then))
       /\ UNCHANGED <<id, base_url, client_headers, file_options, supplied>>

(***************************************************************************)
(* upload and upload_to_signed_url.                                        *)
(***************************************************************************)
\* the dict the operation works on: the caller's own, or a new one for None
given_options == IF file_options.t = "none" THEN << >> ELSE file_options.v

\* cache_control = file_options.get("cache-control"); if cache_control: ...
cache_control_rewrite(opts) ==
    LET cache_control == Get(opts, "cache-control") IN
    IF Truthy(cache_control)
    THEN [opts EXCEPT !["cache-control"] = PyStr(<<"m","a","x","-","a","g","e","=">> \o Format(cache_control))]
    ELSE opts

\* the assignment above writes into the dict the caller passed
options_after_call ==
    IF file_options.t = "none" THEN file_options
    ELSE [t |-> "object", v |-> cache_control_rewrite(given_options)]

\* file_headers with the first two layers in the other order
file_headers_client_last(opts) == Merge(Merge(DEFAULT_FILE_OPTIONS, client_headers), opts)

\* headers = {**self._client.headers, **DEFAULT_FILE_OPTIONS, **file_options}
file_headers(opts) == Merge(Merge(client_headers, DEFAULT_FILE_OPTIONS), opts)

\* file_part naming the part of a path payload after the file that was opened
file_part_named_by_file(path, file, headers) ==
    [filename |-> rsplit_last(IF file.t = "path" THEN file.v ELSE path),
     content |-> Content(file),
     content_type |-> headers["content-type"]]

\* the multipart part: (filename, file or open(file, "rb"), headers.pop("content-type"))
file_part(path, file, headers) ==
    [filename |-> rsplit_last(path),
     content |-> Content(file),
     content_type |-> headers["content-type"]]

\* the state of the handle open(file, "rb") returned when the operation ends.
\* The operation never closes it; whether the interpreter has already
\* finalized the unreferenced file object is up to the interpreter.
handle_at_exit(file, reclaimed) ==
    IF file.t # "path" THEN "none" ELSE IF reclaimed THEN "closed" ELSE "open"

\* both uploads from the point where the target is known
send_file(op, method, url, path, args, file, resp, reclaimed) ==
    LET headers == file_headers(cache_control_rewrite(given_options))
        r == request(method, url, Without(headers, "content-type"), PyNone,
                     <<file_part(path, file, headers)>>, resp)
    IN /\ Finish(IF file.t = "path" /\ file.v \notin DOMAIN Files
                 THEN CallRecord(op, args, << >>, NoAnswer,
                                 Raise("FileNotFoundError", PyNone), "none")
                 ELSE CallRecord(op, args, r.sent, r.answer, r.outcome,
                                 handle_at_exit(file, reclaimed)))
       /\ file_options' = options_after_call
       /\ UNCHANGED <<id, base_url, client_headers, supplied>>

upload(path, file, resp, reclaimed) ==
    send_file("upload", "POST", <<"/","o","b","j","e","c","t","/">> \o get_final_path(path), path,
              [path |-> path, file |-> file, file_options |-> file_options],
              file, resp, reclaimed)

upload_to_signed_url(path, token, file, resp, reclaimed) ==
    LET url == geturl(urlparse(<<"/","o","b","j","e","c","t","/","u","p","l","o","a","d","/","s","i","g","n","/">> \o get_final_path(path)))
        query_params == urlencode(<<<<"token", PyStr(token)>>>>)
    IN send_file("upload_to_signed_url", "PUT", url \o <<"?">> \o query_params, path,
                 [path |-> path, token |-> token, file |-> file,
                  file_options |-> file_options],
                 file, resp, reclaimed)

(***************************************************************************)
(* Signed download URLs.                                                   *)
(***************************************************************************)
\* absolute_url without the lstrip
absolute_url_unstripped(signedURL) == base_url \o signedURL

\* f"{self._client.base_url}{cast(str, data['signedURL']).lstrip('/')}"
absolute_url(signedURL) == base_url \o lstrip(signedURL)

\* json.update({key: options[key]}) if options.get(key)
with_option(json, options, key) ==
    IF Truthy(Get(options, key)) THEN Merge(json, [x \in {key} |-> options[key]]) ELSE json

\* item["signedURL"] = ... of one decoded item
rewrite_item(item) ==
    IF item.t # "object" THEN Raise("TypeError", PyNone)
    ELSE IF "signedURL" \notin DOMAIN item.v THEN Raise("KeyError", PyNone)
    ELSE IF item.v["signedURL"].t # "str" THEN Raise("AttributeError", PyNone)
    ELSE Return([t |-> "object",
                 v |-> [item.v EXCEPT !["signedURL"] = PyStr(absolute_url(@.v))]])

create_signed_url(path, expires_in, options, resp) ==
    LET json == with_option(with_option([expiresIn |-> PyStr(IntChars(expires_in))],
                                        options, "download"), options, "transform")
        r == request("POST", <<"/","o","b","j","e","c","t","/","s","i","g","n","/">> \o get_final_path(path),
                     << >>, [t |-> "object", v |-> json], << >>, resp)
        then == rewrite_item(r.outcome.value.body)
    IN /\ Finish(json_then("create_signed_url",
                           [path |-> path, expires_in |-> expires_in, options |-> options],
                           r, then))
       /\ UNCHANGED <<id, base_url, client_headers, file_options, supplied>>

\* for item in data: item["signedURL"] = ...; the first item that fails ends the loop
RECURSIVE rewrite_items(_, _)
rewrite_items(items, done) ==
    IF items = << >> THEN Return([t |-> "list", v |-> done])
    ELSE LET one == rewrite_item(items[1]) IN
         IF one.kind = "raise" THEN one
         ELSE rewrite_items(Tail(items), Append(done, one.value))

create_signed_urls(paths, expires_in, options, resp) ==
    LET json == with_option([paths |-> [t |-> "list", v |-> paths],
                             expiresIn |-> PyStr(IntChars(expires_in))],
                            options, "download")
        r == request("POST", <<"/","o","b","j","e","c","t","/","s","i","g","n","/">> \o id,
                     << >>, [t |-> "object", v |-> json], << >>, resp)
        data == r.outcome.value.body
        then == IF data.t = "list" THEN rewrite_items(data.v, << >>)
                ELSE IF DOMAIN data.v = {} THEN Return(data)
                ELSE Raise("TypeError", PyNone)
    IN /\ Finish(json_then("create_signed_urls",
                           [paths |-> paths, expires_in |-> expires_in, options |-> options],
                           r, then))
       /\ UNCHANGED <<id, base_url, client_headers, file_options, supplied>>

(***************************************************************************)
(* Public URLs and downloads.                                              *)
(***************************************************************************)
\* "render/image" if options.get("transform") else "object"
render_path(options, render) ==
    IF Truthy(PairsGet(options, "transform")) THEN render ELSE <<"o","b","j","e","c","t">>

\* f"?{transformation_query}" if transformation_query else ""
query_string(options) ==
    LET transformation_query == urlencode(options) IN
    IF transformation_query # << >> THEN <<"?">> \o transformation_query ELSE << >>

public_url(path, options) ==
    base_url \o render_path(options, <<"r","e","n","d","e","r","/","i","m","a","g","e">>) \o <<"/","p","u","b","l","i","c","/">>
    \o get_final_path(path) \o query_string(options)

\* builds the URL; no request is sent
get_public_url(path, options) ==
    /\ Finish(CallRecord("get_public_url", [path |-> path, options |-> options],
                         << >>, NoAnswer, Return(PyStr(public_url(path, options))),
                         "none"))
    /\ UNCHANGED <<id, base_url, client_headers, file_options, supplied>>

\* returns response.content, the body as it came
download(path, options, resp) ==
    LET r == request("GET",
                     render_path(options, <<"r","e","n","d","e","r","/","i","m","a","g","e","/","a","u","t","h","e","n","t","i","c","a","t","e","d">>) \o <<"/">>
                     \o get_final_path(path) \o query_string(options),
                     << >>, PyNone, << >>, resp)
    IN /\ Finish(CallRecord("download", [path |-> path, options |-> options], r.sent,
                            r.answer,
                            IF r.outcome.kind = "raise" THEN r.outcome
                            ELSE Return(r.outcome.value.body), "none"))
       /\ UNCHANGED <<id, base_url, client_headers, file_options, supplied>>

(***************************************************************************)
(* move, copy, remove, list: the decoded response is passed through.       *)
(***************************************************************************)
\* the JSON body of move and of copy
keys_body(from_path, to_path) ==
    [t |-> "object",
     v |-> [bucketId |-> PyStr(id), sourceKey |-> PyStr(from_path),
            destinationKey |-> PyStr(to_path)]]

\* return res.json()
pass_through(op, args, r) == json_then(op, args, r, Return(r.outcome.value.body))

move(from_path, to_path, resp) ==
    /\ Finish(pass_through("move", [from_path |-> from_path, to_path |-> to_path],
                           request("POST", <<"/","o","b","j","e","c","t","/","m","o","v","e">>, << >>,
                                   keys_body(from_path, to_path), << >>, resp)))
    /\ UNCHANGED <<id, base_url, client_headers, file_options, supplied>>

copy(from_path, to_path, resp) ==
    /\ Finish(pass_through("copy", [from_path |-> from_path, to_path |-> to_path],
                           request("POST", <<"/","o","b","j","e","c","t","/","c","o","p","y">>, << >>,
                                   keys_body(from_path, to_path), << >>, resp)))
    /\ UNCHANGED <<id, base_url, client_headers, file_options, supplied>>

remove(paths, resp) ==
    /\ Finish(pass_through("remove", [paths |-> paths],
                           request("DELETE", <<"/","o","b","j","e","c","t","/">> \o id, << >>,
                                   [t |-> "object",
                                    v |-> [prefixes |-> [t |-> "list", v |-> paths]]],
                                   << >>, resp)))
    /\ UNCHANGED <<id, base_url, client_headers, file_options, supplied>>

\* path and options are None or a value; `x or default` takes the default
\* for None and for an empty value
list(path, options, resp) ==
    LET extra_options == IF options.t = "none" THEN << >> ELSE options.v
        body == Merge(Merge(DEFAULT_SEARCH_OPTIONS, extra_options),
                      [prefix |-> IF Truthy(path) THEN path ELSE PyStr(<< >>)])
    IN /\ Finish(pass_through("list", [path |-> path, options |-> options],
                              request("POST", <<"/","o","b","j","e","c","t","/","l","i","s","t","/">> \o id,
                                      [x \in {"Content-Type"} |-> PyStr(<<"a","p","p","l","i","c","a","t","i","o","n","/","j","s","o","n">>)],
                                      [t |-> "object", v |-> body], << >>, resp)))
       /\ UNCHANGED <<id, base_url, client_headers, file_options, supplied>>

(***************************************************************************)
(* Inputs: what callers pass and what the transport answers.               *)
(***************************************************************************)
Object(f) == [t |-> "object", v |-> f]
List(q) == [t |-> "list", v |-> q]

Paths == {<<"p">>, <<"d","/","q",".","p","n","g">>}

BaseUrls == {<<"h","t","t","p","s",":","/","/","x","/">>, <<"h","t","t","p","s",":","/","/","x","/","s","t","o","r","a","g","e","/","v","1","/">>}

ClientHeaders ==
    {[authorization |-> PyStr(<<"B","e","a","r","e","r"," ","k">>)],
     [x \in {"authorization", "x-upsert", "content-type", "x-client"} |->
        CASE x = "authorization" -> PyStr(<<"B","e","a","r","e","r"," ","k">>)
          [] x = "x-upsert" -> PyStr(<<"t","r","u","e">>)
          [] x = "content-type" -> PyStr(<<"a","p","p","l","i","c","a","t","i","o","n","/","j","s","o","n">>)
          [] x = "x-client" -> PyStr(<<"p","y">>)]}

\* file_options as callers write them: None, or a dict of options
FileOptions ==
    {PyNone,
     Object(<< >>),
     Object([x \in {"cache-control"} |-> PyStr(<<"3","6","0","0">>)]),
     Object([x \in {"cache-control"} |-> PyInt(60)]),
     Object([x \in {"cache-control"} |-> PyInt(0)]),
     Object([x \in {"cache-control"} |-> PyStr(<< >>)]),
     Object([x \in {"content-type"} |-> PyStr(<<"i","m","a","g","e","/","p","n","g">>)]),
     Object([x \in {"cache-control", "content-type", "x-upsert"} |->
        CASE x = "cache-control" -> PyStr(<<"6","0">>)
          [] x = "content-type" -> PyStr(<<"i","m","a","g","e","/","p","n","g">>)
          [] x = "x-upsert" -> PyStr(<<"t","r","u","e">>)])}

\* upload payloads: bytes, an open stream, the name of a file
Payloads ==
    {[t |-> "bytes", v |-> <<1, 2>>],
     [t |-> "stream", v |-> <<1, 2>>],
     [t |-> "path", v |-> <<"d","i","r","/","f","1",".","b","i","n">>],
     [t |-> "path", v |-> <<"d","i","r","/","n","o","n","e">>]}

\* transform options, in the order the caller wrote them
TransformOptions ==
    {<< >>,
     <<<<"width", PyInt(100)>>>>,
     <<<<"width", PyInt(100)>>, <<"quality", PyStr(<<"h","i"," ","g","h">>)>>>>,
     <<<<"transform", PyDict(<<<<"width", PyInt(100)>>>>)>>>>,
     <<<<"transform", PyDict(<< >>)>>>>,
     <<<<"transform", PyNone>>>>,
     <<<<"transform", PyStr(<< >>)>>, <<"height", PyInt(20)>>>>,
     <<<<"download", PyStr(<<"a",".","p","n","g">>)>>, <<"transform", PyStr(<<"x">>)>>>>}

\* whether the file object of a path payload is finalized by the time the
\* operation ends: either, when the operation opened one
Reclaims(file) ==
    IF file.t = "path" /\ file.v \in DOMAIN Files THEN BOOLEAN ELSE {FALSE}

\* the transport fails: no response
TransportFailure == [kind |-> "error", status |-> 0, body |-> PyNone]

Response(status, body) == [kind |-> "response", status |-> status, body |-> body]

\* a text body is one that is not JSON
FailingResponses ==
    {Response(404, Object([error |-> PyStr(<<"n","o","t"," ","f","o","u","n","d">>)])),
     Response(400, Object([statusCode |-> PyStr(<<"4","0","0">>), error |-> PyStr(<<"B","a","d">>)])),
     Response(500, [t |-> "text", v |-> <<"o","o","p","s">>]),
     Response(502, List(<< >>))}

Failures == FailingResponses \cup {TransportFailure}

\* the url of a signed upload response
UploadUrls ==
    {<<"/","o","b","j","e","c","t","/","u","p","l","o","a","d","/","s","i","g","n","/","b","/","p","?","t","o","k","e","n","=","a","b","c">>,
     <<"o","b","j","e","c","t","/","u","p","l","o","a","d","/","s","i","g","n","/","b","/","p","?","t","o","k","e","n","=","a","b","c">>,
     <<"/","o","b","j","e","c","t","/","u","p","l","o","a","d","/","s","i","g","n","/","b","/","p">>,
     <<"/","o","b","j","e","c","t","/","u","p","l","o","a","d","/","s","i","g","n","/","b","/","p","?","t","o","k","e","n","=">>,
     <<"/","o","b","j","e","c","t","/","u","p","l","o","a","d","/","s","i","g","n","/","b","/","p","?","t","o","k","e","n">>,
     <<"/","o","b","j","e","c","t","/","u","p","l","o","a","d","/","s","i","g","n","/","b","/","p","?","x","=","1","&","t","o","k","e","n","=","&","t","o","k","e","n","=","a","%","2","F","b","#","f">>,
     <<"/","o","b","j","e","c","t","/","u","p","l","o","a","d","/","s","i","g","n","/","b","/","p","?","t","o","k","e","n","s","=","a","b","c","&","t","o","k","e","n","=","+">>}

SignedUploadResponses ==
    {Response(200, Object([url |-> PyStr(u)])) : u \in UploadUrls}
    \cup {Response(200, Object(<< >>)), Response(200, [t |-> "text", v |-> <<"o","k">>])}

\* the items of a signing response
SignedItems ==
    {Object([signedURL |-> PyStr(<<"/","o","b","j","e","c","t","/","s","i","g","n","/","b","/","p","?","t","o","k","e","n","=","t">>), path |-> PyStr(<<"p">>),
             error |-> PyNone]),
     Object([signedURL |-> PyStr(<<"/","/","o","b","j","e","c","t","/","s","i","g","n","/","b","/","q","?","t","o","k","e","n","=","u">>)]),
     Object([signedURL |-> PyStr(<<"o","b","j","e","c","t","/","s","i","g","n","/","b","/","q","?","t","o","k","e","n","=","u">>), path |-> PyStr(<<"q">>)]),
     Object([signedURL |-> PyNone, error |-> PyStr(<<"n","o","t"," ","f","o","u","n","d">>)])}

\* the paths of a batch of n
Batch(n) == [i \in 1..n |-> IF i % 2 = 1 THEN <<"p">> ELSE <<"d","/","q",".","p","n","g">>]

\* every sequence of n items
RECURSIVE ItemSeqs(_)
ItemSeqs(n) ==
    IF n = 0 THEN {<< >>}
    ELSE {Append(q, x) : q \in ItemSeqs(n - 1), x \in SignedItems}

SignOptions ==
    {<< >>,
     [download |-> PyStr(<<"a",".","p","n","g">>)],
     [x \in {"download", "transform"} |->
        IF x = "download" THEN PyStr(<< >>) ELSE PyDict(<<<<"width", PyInt(100)>>>>)]}

Acknowledged == Response(200, Object([Key |-> PyStr(<<"b","/","p">>)]))

(***************************************************************************)
(* Specifications.  In each one a caller makes up to MaxCalls calls on one *)
(* bucket handle.                                                          *)
(***************************************************************************)
Start(urls, headers, options) ==
    /\ id = <<"b">>
    /\ base_url \in urls
    /\ client_headers \in headers
    /\ file_options \in options
    /\ supplied = file_options
    /\ last = NoCall
    /\ prev = Earlier(NoCall)
    /\ ncalls = 0

\* uploads
InitUpload == Start({<<"h","t","t","p","s",":","/","/","x","/">>}, ClientHeaders, FileOptions)

NextUpload ==
    \/ \E path \in Paths, file \in Payloads, resp \in {Acknowledged, TransportFailure,
                    Response(404, Object([error |-> PyStr(<<"n","o","t"," ","f","o","u","n","d">>)]))} :
          \E reclaimed \in Reclaims(file) :
          upload(path, file, resp, reclaimed)
    \/ \E path \in Paths, file \in Payloads, resp \in {Acknowledged, TransportFailure,
                    Response(404, Object([error |-> PyStr(<<"n","o","t"," ","f","o","u","n","d">>)]))} :
          \E reclaimed \in Reclaims(file) :
          upload_to_signed_url(path, <<"a"," ","b">>, file, resp, reclaimed)

SpecUpload == InitUpload /\ [][NextUpload]_vars

\* signing
InitSign == Start(BaseUrls, {[authorization |-> PyStr(<<"B","e","a","r","e","r"," ","k">>)]}, {PyNone})

NextSign ==
    \/ \E path \in Paths, resp \in SignedUploadResponses \cup Failures :
          create_signed_upload_url(path, resp)
    \/ \E path \in Paths, options \in SignOptions,
          resp \in {Response(200, x) : x \in SignedItems} \cup Failures :
          create_signed_url(path, 60, options, resp)
    \/ \E n \in 1..MaxBatch, options \in {<< >>, [download |-> PyStr(<<"a",".","p","n","g">>)]} :
          \E resp \in {Response(200, List(q)) : q \in ItemSeqs(n)}
                      \cup {Response(200, Object(<< >>))} \cup Failures :
             create_signed_urls(Batch(n), 60, options, resp)

SpecSign == InitSign /\ [][NextSign]_vars

\* public URLs
InitPublic == Start(BaseUrls, {[authorization |-> PyStr(<<"B","e","a","r","e","r"," ","k">>)]}, {PyNone})

NextPublic ==
    \E path \in Paths, options \in TransformOptions : get_public_url(path, options)

SpecPublic == InitPublic /\ [][NextPublic]_vars

\* every operation, each with every kind of answer
Init ==
    Start({<<"h","t","t","p","s",":","/","/","x","/">>}, {[authorization |-> PyStr(<<"B","e","a","r","e","r"," ","k">>)]},
          {PyNone, Object([x \in {"cache-control"} |-> PyStr(<<"3","6","0","0">>)])})

Next ==
    \/ \E resp \in {Response(200, Object([url |-> PyStr(<<"/","o","b","j","e","c","t","/","u","p","l","o","a","d","/","s","i","g","n","/","b","/","p","?","t","o","k","e","n","=","a","b","c">>)]))}
                   \cup Failures :
          create_signed_upload_url(<<"p">>, resp)
    \/ \E file \in Payloads, resp \in {Acknowledged} \cup Failures :
          \E reclaimed \in Reclaims(file) :
             upload_to_signed_url(<<"p">>, <<"a","b","c">>, file, resp, reclaimed)
    \/ \E resp \in {Response(200, x) : x \in SignedItems} \cup Failures :
          create_signed_url(<<"p">>, 60, << >>, resp)
    \/ \E resp \in {Response(200, List(q)) : q \in ItemSeqs(1)} \cup Failures :
          create_signed_urls(Batch(1), 60, << >>, resp)
    \/ get_public_url(<<"p">>, << >>)
    \/ \E resp \in {Response(200, Object([message |-> PyStr(<<"S","u","c","c","e","s","s","f","u","l","l","y"," ","m","o","v","e","d">>)]))}
                   \cup Failures :
          move(<<"p">>, <<"d","/","q",".","p","n","g">>, resp)
    \/ \E resp \in {Response(200, Object([Key |-> PyStr(<<"b","/","d","/","q",".","p","n","g">>)]))} \cup Failures :
          copy(<<"p">>, <<"d","/","q",".","p","n","g">>, resp)
    \/ \E resp \in {Response(200, List(<<Object([name |-> PyStr(<<"p">>)])>>))} \cup Failures :
          remove(<<<<"p">>>>, resp)
    \/ \E path \in {PyNone, PyStr(<<"d">>)},
          options \in {PyNone, Object([limit |-> PyInt(10)])},
          resp \in {Response(200, List(<<Object([name |-> PyStr(<<"q",".","p","n","g">>)])>>))}
                   \cup Failures :
          list(path, options, resp)
    \/ \E options \in {<< >>, <<<<"transform", PyDict(<<<<"width", PyInt(100)>>>>)>>>>},
          resp \in {Response(200, [t |-> "text", v |-> <<"b","y","t","e","s">>])} \cup Failures :
          download(<<"p">>, options, resp)
    \/ \E file \in Payloads, resp \in {Acknowledged} \cup Failures :
          \E reclaimed \in Reclaims(file) : upload(<<"p">>, file, resp, reclaimed)

Spec == Init /\ [][Next]_vars

(***************************************************************************)
(* Properties.                                                             *)
(***************************************************************************)
Answered(call) == call.answer.kind = "response"
Succeeded(call) == Answered(call) /\ call.answer.status = 200
Returned(call) == call.outcome.kind = "return"
Raised(call, exc) == call.outcome.kind = "raise" /\ call.outcome.exc = exc

\* C3: a failing response with a JSON object body B and status s makes the
\* operation raise a StorageException whose data is B with statusCode set to s
\* (s wins over a statusCode of B); nothing is returned.
C3_FailingResponseRaises ==
    (Answered(last) /\ last.answer.status >= 400 /\ last.answer.body.t = "object") =>
        LET B == last.answer.body.v
            data == last.outcome.value
        IN /\ Raised(last, "StorageException")
           /\ DOMAIN data = DOMAIN B \cup {"statusCode"}
           /\ data["statusCode"] = PyInt(last.answer.status)
           /\ \A k \in DOMAIN B \ {"statusCode"} : data[k] = B[k]

\* a body with its own statusCode came back to a remove and was raised
C3_Witness ==
    /\ last.op = "remove"
    /\ Answered(last) /\ last.answer.status = 400
    /\ "statusCode" \in DOMAIN last.answer.body.v
    /\ Raised(last, "StorageException")

\* the urls of UploadUrls with no token parameter or an empty one
TokenlessUrls ==
    {<<"/","o","b","j","e","c","t","/","u","p","l","o","a","d","/","s","i","g","n","/","b","/","p">>,
     <<"/","o","b","j","e","c","t","/","u","p","l","o","a","d","/","s","i","g","n","/","b","/","p","?","t","o","k","e","n","=">>,
     <<"/","o","b","j","e","c","t","/","u","p","l","o","a","d","/","s","i","g","n","/","b","/","p","?","t","o","k","e","n">>}

SignedUploadAnswer(call) ==
    /\ call.op = "create_signed_upload_url"
    /\ Succeeded(call)
    /\ call.answer.body.t = "object"
    /\ "url" \in DOMAIN call.answer.body.v

\* C4: create_signed_upload_url returns no result with an empty token; a url
\* with no token parameter, or with an empty one, raises a StorageException.
C4_TokenNeverEmpty ==
    /\ (last.op = "create_signed_upload_url" /\ Returned(last)) =>
            last.outcome.value.token # << >>
    /\ (SignedUploadAnswer(last) /\ last.answer.body.v["url"].v \in TokenlessUrls) =>
            Raised(last, "StorageException")

\* the url came with "token=" and the operation raised
C4_Witness ==
    /\ SignedUploadAnswer(last)
    /\ last.answer.body.v["url"].v = <<"/","o","b","j","e","c","t","/","u","p","l","o","a","d","/","s","i","g","n","/","b","/","p","?","t","o","k","e","n","=">>
    /\ Raised(last, "StorageException")

\* C2: with base URL https://x/ and the response
\* {"url": "/object/upload/sign/b/p?token=abc"}, create_signed_upload_url(p)
\* returns signed_url https://x/object/upload/sign/b/p?token=abc (no doubled
\* slash), token abc and the caller's path.
C2_SignedUploadExample ==
    (/\ SignedUploadAnswer(last)
     /\ base_url = <<"h","t","t","p","s",":","/","/","x","/">>
     /\ last.args.path = <<"p">>
     /\ last.answer.body.v["url"].v = <<"/","o","b","j","e","c","t","/","u","p","l","o","a","d","/","s","i","g","n","/","b","/","p","?","t","o","k","e","n","=","a","b","c">>) =>
        last.outcome = Return([signed_url |-> <<"h","t","t","p","s",":","/","/","x","/","o","b","j","e","c","t","/","u","p","l","o","a","d","/","s","i","g","n","/","b","/","p","?","t","o","k","e","n","=","a","b","c">>,
                               token |-> <<"a","b","c">>,
                               path |-> <<"p">>])

\* out is base_url followed by url without its leading slashes
Rebased(out, url) ==
    /\ Len(out) >= Len(base_url)
    /\ SubSeq(out, 1, Len(base_url)) = base_url
    /\ LET rest == SubSeq(out, Len(base_url) + 1, Len(out)) IN
       /\ rest = << >> \/ rest[1] # "/"
       /\ \E n \in 0..Len(url) : url = [i \in 1..n |-> "/"] \o rest

\* item `after` is item `before` with only its signedURL rewritten
RebasedItem(before, after) ==
    /\ after.t = "object"
    /\ DOMAIN after.v = DOMAIN before.v
    /\ \A k \in DOMAIN before.v \ {"signedURL"} : after.v[k] = before.v[k]
    /\ after.v["signedURL"].t = "str"
    /\ Rebased(after.v["signedURL"].v, before.v["signedURL"].v)

Signable(item) ==
    item.t = "object" /\ "signedURL" \in DOMAIN item.v /\ item.v["signedURL"].t = "str"

\* C7: create_signed_urls returns the items of the response in order, each
\* with its signedURL replaced by the base URL followed by the returned
\* signedURL without leading slashes and its other fields unchanged;
\* create_signed_url does the same to its one item.
C7_SignedUrlsRebased ==
    /\ (/\ last.op = "create_signed_urls" /\ Succeeded(last)
        /\ last.answer.body.t = "list"
        /\ \A i \in 1..Len(last.answer.body.v) : Signable(last.answer.body.v[i])) =>
            /\ Returned(last)
            /\ last.outcome.value.t = "list"
            /\ Len(last.outcome.value.v) = Len(last.answer.body.v)
            /\ \A i \in 1..Len(last.answer.body.v) :
                  RebasedItem(last.answer.body.v[i], last.outcome.value.v[i])
    /\ (last.op = "create_signed_url" /\ Succeeded(last) /\ Signable(last.answer.body)) =>
            /\ Returned(last)
            /\ RebasedItem(last.answer.body, last.outcome.value)

\* a batch of two came back, the first item's signedURL with a leading slash
C7_Witness ==
    /\ last.op = "create_signed_urls" /\ Returned(last)
    /\ Len(last.args.paths) = 2
    /\ last.outcome.value.t = "list" /\ Len(last.outcome.value.v) = 2
    /\ last.answer.body.v[1].v["signedURL"].v[1] = "/"
    /\ last.answer.body.v[2].v["signedURL"].v[1] # "/"

IsUpload(call) == call.op \in {"upload", "upload_to_signed_url"}

\* an upload that reached the transport
SentUpload(call) == IsUpload(call) /\ call.sent # << >>

\* the file options a call was given, as a dict
OptionsOf(call) ==
    IF call.args.file_options.t = "none" THEN << >> ELSE call.args.file_options.v

\* C1: when the payload of upload or upload_to_signed_url names a file, the
\* handle the operation opened is closed when the operation returns or raises.
C1_HandleClosedAtExit ==
    (IsUpload(last) /\ last.args.file.t = "path") => last.handle # "open"

\* C5: for every cache-control value v among the file options of an upload
\* (0 and "" included) the headers sent hold cache-control = "max-age=" + v,
\* and every other option given holds its value unchanged.  (The option
\* content-type is left out of "every other option" here: it names the
\* part's content type, see C9.)
C5_CacheControlRewritten ==
    SentUpload(last) =>
        LET given == OptionsOf(last)
            headers == last.sent[1].headers
        IN /\ "cache-control" \in DOMAIN given =>
                /\ "cache-control" \in DOMAIN headers
                /\ headers["cache-control"]
                     = PyStr(<<"m","a","x","-","a","g","e","=">> \o Format(given["cache-control"]))
           /\ \A k \in DOMAIN given \ {"cache-control", "content-type"} :
                k \in DOMAIN headers /\ headers[k] = given[k]

\* C10: the uploads leave the caller's file_options as the caller wrote them,
\* so a later call with the same file_options sends the cache-control header
\* the call before it sent.
C10_FileOptionsUntouched ==
    /\ file_options = supplied
    /\ (SentUpload(prev) /\ SentUpload(last)) =>
            Get(last.sent[1].headers, "cache-control")
              = Get(prev.sent[1].headers, "cache-control")

\* a names the bytes that the file named by b holds, or the other way round
SameContent(a, b) ==
    /\ {a.t, b.t} = {"bytes", "path"}
    /\ a.v \in DOMAIN Files \/ b.v \in DOMAIN Files
    /\ Content(a) = Content(b)

\* C8: for the same relative path and file options, an upload of bytes and an
\* upload of a file holding the same bytes send the same part (filename: the
\* last segment of the relative path; content; content type) with the same
\* method to the same target; likewise upload_to_signed_url.
C8_BytesAndPathAlike ==
    (/\ SentUpload(prev) /\ SentUpload(last)
     /\ prev.op = last.op
     /\ prev.args.path = last.args.path
     /\ SameContent(prev.args.file, last.args.file)) =>
        /\ last.sent[1].files = prev.sent[1].files
        /\ last.sent[1].files[1].filename = rsplit_last(last.args.path)
        /\ last.sent[1].method = prev.sent[1].method
        /\ last.sent[1].url = prev.sent[1].url

\* bytes went to d/q.png, then the file holding the same bytes did
C8_Witness ==
    /\ SentUpload(prev) /\ SentUpload(last)
    /\ prev.op = "upload_to_signed_url" /\ last.op = "upload_to_signed_url"
    /\ prev.args.path = <<"d","/","q",".","p","n","g">> /\ last.args.path = <<"d","/","q",".","p","n","g">>
    /\ prev.args.file.t = "bytes" /\ last.args.file.t = "path"
    /\ last.sent[1].files[1].filename = <<"q",".","p","n","g">>
    /\ last.sent[1].files[1].content = <<1, 2>>

\* C9: the headers sent by an upload are client headers < built-in defaults
\* < the caller's file options (the latest layer that has a key gives its
\* value), without the key content-type; the content type of the part is the
\* caller's content-type if there is one, else the built-in default.
C9_HeaderLayers ==
    SentUpload(last) =>
        LET given == OptionsOf(last)
            headers == last.sent[1].headers
        IN /\ DOMAIN headers
                = (DOMAIN client_headers \cup DOMAIN DEFAULT_FILE_OPTIONS \cup DOMAIN given)
                  \ {"content-type"}
           /\ \A k \in DOMAIN headers :
                IF k \in DOMAIN given
                THEN IF k = "cache-control"
                     THEN headers[k] \in {given[k],
                                          PyStr(<<"m","a","x","-","a","g","e","=">> \o Format(given[k]))}
                     ELSE headers[k] = given[k]
                ELSE IF k \in DOMAIN DEFAULT_FILE_OPTIONS
                THEN headers[k] = DEFAULT_FILE_OPTIONS[k]
                ELSE headers[k] = client_headers[k]
           /\ last.sent[1].files[1].content_type
                = IF "content-type" \in DOMAIN given THEN given["content-type"]
                  ELSE DEFAULT_FILE_OPTIONS["content-type"]

\* all three layers hold content-type and x-upsert, and the upload was sent
C9_Witness ==
    /\ SentUpload(last)
    /\ {"content-type", "x-upsert"} \subseteq DOMAIN client_headers
    /\ {"content-type", "x-upsert"} \subseteq DOMAIN OptionsOf(last)
    /\ last.sent[1].files[1].content_type = PyStr(<<"i","m","a","g","e","/","p","n","g">>)
    /\ "x-client" \in DOMAIN last.sent[1].headers

\* url ends with tail
EndsWith(url, tail) ==
    Len(url) >= Len(tail) /\ SubSeq(url, Len(url) - Len(tail) + 1, Len(url)) = tail

HasKey(options, k) == \E i \in 1..Len(options) : options[i][1] = k

\* C6: get_public_url(path, T) ends with "?" + urlencode(T) for a non-empty T
\* and with no "?" for an empty one; it is the base URL, then
\* render/image/public if T has a transform key and object/public if not,
\* then "/" + bucket id + "/" + path; no request is sent.
C6_PublicUrl ==
    last.op = "get_public_url" =>
        LET T == last.args.options
            url == last.outcome.value.v
            segment == IF HasKey(T, "transform") THEN <<"r","e","n","d","e","r","/","i","m","a","g","e","/","p","u","b","l","i","c">>
                       ELSE <<"o","b","j","e","c","t","/","p","u","b","l","i","c">>
            stem == base_url \o segment \o <<"/">> \o id \o <<"/">> \o last.args.path
        IN /\ last.sent = << >>
           /\ IF T # << >> THEN url = stem \o <<"?">> \o urlencode(T)
              ELSE url = stem /\ ~EndsWith(url, <<"?">>)

====
